---- MODULE Spec2Model ----
(***************************************************************************)
(* Model of src/moments.py: rse, weighted_mean_oned and weighted_mean_twod.*)
(*                                                                         *)
(* Numbers.  The program computes in float64.  The model computes in exact *)
(* rational arithmetic: a number is a pair <<n, d>> in lowest terms with   *)
(* d > 0.  Rounding is therefore not modelled; every statement below is a  *)
(* statement about the real-number result of the code's formulas.  The two *)
(* irrational values of the program are kept symbolic or at the documented *)
(* precision: np.sqrt(v) is the record [sqrt_of |-> v], and the RSE        *)
(* constant is the 0.390152 of the docstring.                              *)
(*                                                                         *)
(* Arrays.  A numpy 1-D array is a TLA+ sequence; the code's index k is    *)
(* the sequence index k + 1.  A 2-D array is a record [r, c, a] with       *)
(* a[<<i, j>>] the entry at row i, column j, both counted from 0 as in the *)
(* code.  A numpy 1-D result of np.dot is a function on 0 .. n-1.          *)
(***************************************************************************)
EXTENDS Integers, Sequences, FiniteSets, TLC

\* Largest number of measurements handed to weighted_mean_oned / _twod.
MaxN == 2
\* Largest array handed to rse.
MaxLen == 4

(***************************************************************************)
(* float arithmetic, exact                                                 *)
(***************************************************************************)
Abs(n) == IF n < 0 THEN -n ELSE n

RECURSIVE GCD(_, _)
GCD(a, b) == IF b = 0 THEN a ELSE GCD(b, a % b)

\* The number n/d (d # 0) in lowest terms with a positive denominator.
Rat(n, d) ==
    LET g == GCD(Abs(n), Abs(d))
        s == IF d < 0 THEN -1 ELSE 1
    IN  <<(s * n) \div g, (s * d) \div g>>

Zero == <<0, 1>>
One == <<1, 1>>
FromInt(n) == <<n, 1>>

\* The operations cancel common factors before they multiply, which keeps the
\* intermediate integers small; the values are those of p + q, p - q, p * q, p / q.
RAdd(p, q) ==
    LET g == GCD(p[2], q[2])
    IN  Rat(p[1] * (q[2] \div g) + q[1] * (p[2] \div g), (p[2] \div g) * q[2])
RSub(p, q) == RAdd(p, <<-q[1], q[2]>>)
RMul(p, q) ==
    LET g1 == GCD(Abs(p[1]), q[2])
        g2 == GCD(Abs(q[1]), p[2])
    IN  <<(p[1] \div g1) * (q[1] \div g2), (p[2] \div g2) * (q[2] \div g1)>>
\* p / q for q # 0.
RDiv(p, q) == RMul(p, Rat(q[2], q[1]))
RLess(p, q) ==
    LET g == GCD(p[2], q[2])
    IN  p[1] * (q[2] \div g) < q[1] * (p[2] \div g)
RLeq(p, q) ==
    LET g == GCD(p[2], q[2])
    IN  p[1] * (q[2] \div g) <= q[1] * (p[2] \div g)
RIsInt(p) == p[2] = 1
\* int(p) for p >= 0: truncation.
RFloor(p) == p[1] \div p[2]

\* np.sqrt(v), kept symbolic: two square roots are equal iff their radicands are.
Sqrt(v) == [sqrt_of |-> v]

\* np.sum over a sequence of numbers.
RECURSIVE SumSeq(_)
SumSeq(s) == IF s = <<>> THEN Zero ELSE RAdd(Head(s), SumSeq(Tail(s)))

(***************************************************************************)
(* numpy arrays                                                            *)
(***************************************************************************)
\* np.zeros((r, c))
Zeros(r, c) == [r |-> r, c |-> c, a |-> [p \in (0 .. r - 1) \X (0 .. c - 1) |-> Zero]]
\* np.zeros(n)
ZerosVec(n) == [i \in 0 .. n - 1 |-> Zero]

\* m.T
Transpose(m) == [r |-> m.c, c |-> m.r, a |-> [p \in (0 .. m.c - 1) \X (0 .. m.r - 1) |-> m.a[<<p[2], p[1]>>]]]

\* sum over k in 0 .. n-1 of f[k], in index order as np.dot accumulates.
RECURSIVE SumTo(_, _)
SumTo(f, n) == IF n = 0 THEN Zero ELSE RAdd(SumTo(f, n - 1), f[n - 1])

\* np.dot(m, n) for 2-D m and 2-D n.
Dot(m, n) ==
    [r |-> m.r, c |-> n.c,
     a |-> [p \in (0 .. m.r - 1) \X (0 .. n.c - 1) |->
              SumTo([k \in 0 .. m.c - 1 |-> RMul(m.a[<<p[1], k>>], n.a[<<k, p[2]>>])], m.c)]]

\* np.dot(m, v) for 2-D m and 1-D v.
DotVec(m, v) ==
    [i \in 0 .. m.r - 1 |->
        SumTo([k \in 0 .. m.c - 1 |-> RMul(m.a[<<i, k>>], v[k])], m.c)]

\* The determinant of a 2x2 array.
Det2(m) == RSub(RMul(m.a[<<0, 0>>], m.a[<<1, 1>>]), RMul(m.a[<<0, 1>>], m.a[<<1, 0>>]))

\* The inverse of a 2x2 array of non-zero determinant.
Inverse2(m) ==
    LET d == Det2(m)
    IN  [r |-> 2, c |-> 2,
         a |-> [p \in (0 .. 1) \X (0 .. 1) |->
                  IF p = <<0, 0>> THEN RDiv(m.a[<<1, 1>>], d)
                  ELSE IF p = <<1, 1>> THEN RDiv(m.a[<<0, 0>>], d)
                  ELSE RDiv(RSub(Zero, m.a[p]), d)]]

\* numpy.linalg.inv on a 2x2 array: it raises LinAlgError("Singular matrix") when
\* the LU factorisation meets a zero pivot, which in exact arithmetic is exactly
\* when the determinant is 0, and returns the inverse otherwise.
\* A variant that returns zeros for a singular array instead of raising.
inv_silent(m) ==
    IF Det2(m) = Zero THEN [raised |-> FALSE, val |-> Zeros(2, 2)]
    ELSE [raised |-> FALSE, val |-> Inverse2(m)]
\* A variant that raises unless the determinant is positive.
inv_posdef(m) ==
    IF RLeq(Det2(m), Zero) THEN [raised |-> TRUE, val |-> Zeros(2, 2)]
    ELSE [raised |-> FALSE, val |-> Inverse2(m)]
inv(m) ==
    IF Det2(m) = Zero THEN [raised |-> TRUE, val |-> Zeros(2, 2)]
    ELSE [raised |-> FALSE, val |-> Inverse2(m)]

(***************************************************************************)
(* State                                                                   *)
(***************************************************************************)
VARIABLES
    fn,      \* the function being called: "rse", "oned" or "twod"
    x, y, sx, sy, cxy,   \* the arguments (y, sx, sy, cxy unused by rse; y, sy, cxy by oned)
    pc,      \* "call": not entered; "loop": in or past the for loop; "done"; "error"
    j,       \* the loop variable of weighted_mean_twod (the value the next iteration takes)
    cinv, cov, mat_a, vec_b,   \* the locals of weighted_mean_twod
    ret,     \* the returned value once pc = "done"
    err      \* the exception once pc = "error"

vars == <<fn, x, y, sx, sy, cxy, pc, j, cinv, cov, mat_a, vec_b, ret, err>>

(***************************************************************************)
(* Inputs                                                                  *)
(***************************************************************************)
SeqsUpTo(S, n) == UNION {[1 .. k -> S] : k \in 0 .. n}

\* (x, y) of one measurement.
XY == {<<FromInt(0), FromInt(0)>>, <<FromInt(3), FromInt(-2)>>}

\* (sx, sy, cxy) of one measurement: positive definite, singular, and out of domain.
Uncert ==
    ({FromInt(1), FromInt(2)} \X {FromInt(1), FromInt(3)} \X {Zero, Rat(1, 2)})
    \cup ({Zero, FromInt(1)} \X {Zero, FromInt(1)} \X {Zero})
    \cup ({FromInt(1)} \X {FromInt(1)} \X {FromInt(-1), FromInt(1), Rat(3, 2)})
    \cup ({FromInt(-1), FromInt(1)} \X {FromInt(-3), FromInt(1)} \X {Rat(-1, 2)})

\* Values of the arrays handed to rse.
RseVals == {FromInt(-2), Zero, FromInt(1)}

\* Five arrays of one length n <= MaxN.
InitEqual ==
    \E n \in 0 .. MaxN :
        \E pts \in [1 .. n -> XY], unc \in [1 .. n -> Uncert] :
            /\ x = [i \in 1 .. n |-> pts[i][1]]
            /\ y = [i \in 1 .. n |-> pts[i][2]]
            /\ sx = [i \in 1 .. n |-> unc[i][1]]
            /\ sy = [i \in 1 .. n |-> unc[i][2]]
            /\ cxy = [i \in 1 .. n |-> unc[i][3]]

\* Five arrays of independent lengths <= MaxN.
InitRagged ==
    /\ x \in SeqsUpTo({Zero, FromInt(3)}, MaxN)
    /\ y \in SeqsUpTo({FromInt(-2)}, MaxN)
    /\ sx \in SeqsUpTo({Zero, FromInt(1)}, MaxN)
    /\ sy \in SeqsUpTo({FromInt(3)}, MaxN)
    /\ cxy \in SeqsUpTo({Rat(1, 2)}, MaxN)

InitLocals ==
    /\ pc = "call"
    /\ j = 0
    /\ cinv = Zeros(0, 0)
    /\ cov = Zeros(0, 0)
    /\ mat_a = Zeros(0, 0)
    /\ vec_b = ZerosVec(0)
    /\ ret = <<>>
    /\ err = "none"

InitTwod ==
    /\ fn = "twod"
    /\ (InitEqual \/ InitRagged)

InitRse ==
    /\ fn = "rse"
    /\ x \in SeqsUpTo(RseVals, MaxLen) \ {<<>>}
    /\ y = <<>> /\ sx = <<>> /\ sy = <<>> /\ cxy = <<>>

InitOned ==
    /\ fn = "oned"
    /\ \E n \in 1 .. MaxN :
          /\ x \in [1 .. n -> {Zero, FromInt(3)}]
          /\ sx \in [1 .. n -> {FromInt(1), FromInt(2)}]
    /\ y = <<>> /\ sy = <<>> /\ cxy = <<>>

Init == (InitTwod \/ InitRse \/ InitOned) /\ InitLocals

(***************************************************************************)
(* weighted_mean_twod                                                      *)
(***************************************************************************)
\* A variant that takes the shortest of the five arrays.
ndata_min ==
    LET lens == {Len(x), Len(y), Len(sx), Len(sy), Len(cxy)}
    IN  CHOOSE n \in lens : \A m \in lens : n <= m
\* Line 95: ndata = x.size
ndata == Len(x)

\* Lines 95-99: the locals are allocated.
TwodEnter ==
    /\ fn = "twod" /\ pc = "call"
    /\ pc' = "loop"
    /\ j' = 0
    /\ cinv' = Zeros(2 * ndata, 2 * ndata)
    /\ cov' = Zeros(2, 2)
    /\ mat_a' = Zeros(2 * ndata, 2)
    /\ vec_b' = ZerosVec(2 * ndata)
    /\ UNCHANGED <<fn, x, y, sx, sy, cxy, ret, err>>

\* A variant that stops one point early.
LoopDone_short == j >= 2 * ndata - 2
\* Line 100: range(0, 2 * ndata, 2) is exhausted at j.
LoopDone == j >= 2 * ndata

\* m[row] = [a, b] on an (r, 2) array.
SetRow(m, row, a, b) == [m EXCEPT !.a[<<row, 0>>] = a, !.a[<<row, 1>>] = b]

\* m[row, col] = v
SetEntry(m, row, col, v) == [m EXCEPT !.a[<<row, col>>] = v]

\* m[at : at + 2, at : at + 2] = b for a (2, 2) array b.
SetBlock(m, at, b) ==
    [m EXCEPT !.a = [p \in DOMAIN m.a |->
        IF p[1] \in at .. at + 1 /\ p[2] \in at .. at + 1
        THEN b.a[<<p[1] - at, p[2] - at>>]
        ELSE m.a[p]]]

\* Reading element k of a (Python index, k >= 0) raises IndexError.
IndexError(a, k) == k >= Len(a)

\* The first line of iteration k that raises IndexError, 0 if none does.
IndexErrorLine(k) ==
    IF IndexError(y, k) THEN 105
    ELSE IF IndexError(sx, k) THEN 106
    ELSE IF IndexError(sy, k) THEN 107
    ELSE IF IndexError(cxy, k) THEN 108
    ELSE 0

\* A variant that stores sx, sy instead of their squares on the diagonal.
CovAssign_unsquared(c, k) ==
    LET c1 == SetEntry(c, 0, 0, sx[k + 1])
        c2 == SetEntry(c1, 1, 1, sy[k + 1])
        c3 == SetEntry(c2, 1, 0, RMul(RMul(sx[k + 1], sy[k + 1]), cxy[k + 1]))
    IN  IF IndexErrorLine(k) # 0 THEN c ELSE SetEntry(c3, 0, 1, c3.a[<<1, 0>>])

\* A variant whose cov[0, 1] leaves out the correlation coefficient.
CovAssign_asym(c, k) ==
    LET c1 == SetEntry(c, 0, 0, RMul(sx[k + 1], sx[k + 1]))
        c2 == SetEntry(c1, 1, 1, RMul(sy[k + 1], sy[k + 1]))
        c3 == SetEntry(c2, 1, 0, RMul(RMul(sx[k + 1], sy[k + 1]), cxy[k + 1]))
    IN  IF IndexErrorLine(k) # 0 THEN c ELSE SetEntry(c3, 0, 1, RMul(sx[k + 1], sy[k + 1]))

\* A variant that never writes cov[0, 1]: the buffer keeps what it held.
CovAssign_stale(c, k) ==
    LET c1 == SetEntry(c, 0, 0, RMul(sx[k + 1], sx[k + 1]))
        c2 == SetEntry(c1, 1, 1, RMul(sy[k + 1], sy[k + 1]))
    IN  IF IndexErrorLine(k) # 0 THEN c
        ELSE SetEntry(c2, 1, 0, RMul(RMul(sx[k + 1], sy[k + 1]), cxy[k + 1]))

\* Lines 106-109 on the buffer c for point k, as far as they run.
CovAssign(c, k) ==
    LET stop == IndexErrorLine(k)
        c1 == SetEntry(c, 0, 0, RMul(sx[k + 1], sx[k + 1]))
        c2 == SetEntry(c1, 1, 1, RMul(sy[k + 1], sy[k + 1]))
        c3 == SetEntry(c2, 1, 0, RMul(RMul(sx[k + 1], sy[k + 1]), cxy[k + 1]))
        c4 == SetEntry(c3, 0, 1, c3.a[<<1, 0>>])
    IN  IF stop \in {105, 106} THEN c
        ELSE IF stop = 107 THEN c1
        ELSE IF stop = 108 THEN c2
        ELSE c4

\* Lines 101-110: one iteration of the loop, for point k = int(j / 2).
TwodIter ==
    /\ fn = "twod" /\ pc = "loop" /\ ~LoopDone
    /\ LET k == j \div 2
           stop == IndexErrorLine(k)
           newcov == CovAssign(cov, k)
           r == inv(newcov)
       IN  /\ mat_a' = SetRow(SetRow(mat_a, j, One, Zero), j + 1, Zero, One)
           /\ vec_b' = IF stop = 105 THEN [vec_b EXCEPT ![j] = x[k + 1]]
                       ELSE [vec_b EXCEPT ![j] = x[k + 1], ![j + 1] = y[k + 1]]
           /\ cov' = newcov
           /\ IF stop # 0
              THEN /\ pc' = "error" /\ err' = "IndexError"
                   /\ UNCHANGED <<cinv, j>>
              ELSE IF r.raised
              THEN /\ pc' = "error" /\ err' = "LinAlgError"
                   /\ UNCHANGED <<cinv, j>>
              ELSE /\ cinv' = SetBlock(cinv, j, r.val)
                   /\ j' = j + 2
                   /\ UNCHANGED <<pc, err>>
    /\ UNCHANGED <<fn, x, y, sx, sy, cxy, ret>>

\* A variant whose means leave out the product with covw.
Solve_nocovw(ci, ma, vb) ==
    LET r == inv(Dot(Transpose(ma), Dot(ci, ma)))
        w == DotVec(Transpose(ma), DotVec(ci, vb))
    IN  IF r.raised THEN [raised |-> TRUE, val |-> <<>>]
        ELSE [raised |-> FALSE, val |-> <<w[0], w[1], r.val>>]

\* Lines 111-112 on the finished arrays.
Solve(ci, ma, vb) ==
    LET r == inv(Dot(Transpose(ma), Dot(ci, ma)))
        w == DotVec(r.val, DotVec(Transpose(ma), DotVec(ci, vb)))
    IN  IF r.raised THEN [raised |-> TRUE, val |-> <<>>]
        ELSE [raised |-> FALSE, val |-> <<w[0], w[1], r.val>>]

\* Lines 111-113: the solution after the loop.
TwodSolve ==
    /\ fn = "twod" /\ pc = "loop" /\ LoopDone
    /\ LET s == Solve(cinv, mat_a, vec_b)
       IN  IF s.raised
           THEN /\ pc' = "error" /\ err' = "LinAlgError" /\ UNCHANGED ret
           ELSE /\ pc' = "done" /\ ret' = s.val /\ UNCHANGED err
    /\ UNCHANGED <<fn, x, y, sx, sy, cxy, j, cinv, cov, mat_a, vec_b>>

(***************************************************************************)
(* rse                                                                     *)
(***************************************************************************)
\* _rse_constant = 1 / (sqrt(2) * 2 * erfinv(0.8)), at the docstring's precision.
rse_constant == Rat(390152, 1000000)

\* np.sort(a)
Sorted(a) == SortSeq(a, LAMBDA p, q : RLess(p, q))

\* scipy.stats.scoreatpercentile(a, per) with its default interpolation ("fraction")
\* on a non-empty 1-D array: idx = per / 100 * (n - 1); the order statistic at idx
\* when idx is whole, else the two around it weighted by their distance to idx.
scoreatpercentile(a, per) ==
    LET sorted == Sorted(a)
        idx == Rat(per * (Len(a) - 1), 100)
        i == RFloor(idx)
        w1 == RSub(FromInt(i + 1), idx)
        w2 == RSub(idx, FromInt(i))
        sumval == RAdd(w1, w2)
    IN  IF RIsInt(idx) THEN sorted[i + 1]
        ELSE RDiv(RAdd(RMul(sorted[i + 1], w1), RMul(sorted[i + 2], w2)), sumval)

\* A variant with the two percentiles exchanged.
rse_swapped(a) == RMul(rse_constant, RSub(scoreatpercentile(a, 10), scoreatpercentile(a, 90)))
\* Line 36.
rse(a) == RMul(rse_constant, RSub(scoreatpercentile(a, 90), scoreatpercentile(a, 10)))

RseCall ==
    /\ fn = "rse" /\ pc = "call"
    /\ pc' = "done"
    /\ ret' = rse(x)
    /\ UNCHANGED <<fn, x, y, sx, sy, cxy, j, cinv, cov, mat_a, vec_b, err>>

(***************************************************************************)
(* weighted_mean_oned                                                      *)
(***************************************************************************)
\* Lines 57-59 on arrays of one length.  In Python 1 / sx * sx is (1 / sx) * sx
\* and x / sx * sx is (x / sx) * sx, element by element.
weighted_mean_oned(a, sa) ==
    LET w == SumSeq([i \in 1 .. Len(sa) |-> RMul(RDiv(One, sa[i]), sa[i])])
        wx == RDiv(SumSeq([i \in 1 .. Len(a) |-> RMul(RDiv(a[i], sa[i]), sa[i])]), w)
    IN  <<wx, Sqrt(RDiv(One, w))>>

OnedCall ==
    /\ fn = "oned" /\ pc = "call"
    /\ pc' = "done"
    /\ ret' = weighted_mean_oned(x, sx)
    /\ UNCHANGED <<fn, x, y, sx, sy, cxy, j, cinv, cov, mat_a, vec_b, err>>

(***************************************************************************)
(* The program: one call of one of the three functions                     *)
(***************************************************************************)
Next == TwodEnter \/ TwodIter \/ TwodSolve \/ RseCall \/ OnedCall

Spec == Init /\ [][Next]_vars

(***************************************************************************)
(* Vocabulary of the properties                                            *)
(***************************************************************************)
RPos(p) == p[1] > 0
RAbs(p) == <<Abs(p[1]), p[2]>>

Terminated == pc \in {"done", "error"}
EqualLen == Len(y) = Len(x) /\ Len(sx) = Len(x) /\ Len(sy) = Len(x) /\ Len(cxy) = Len(x)

\* Point i (from 1) has a positive definite covariance matrix.
PosDef(i) == RPos(sx[i]) /\ RPos(sy[i]) /\ RLess(RAbs(cxy[i]), One)
\* Point i has a singular covariance matrix.
Singular(i) == sx[i] = Zero \/ sy[i] = Zero \/ RAbs(cxy[i]) = One
\* Point i is outside the documented domain.
OutOfDomain(i) == RLeq(sx[i], Zero) \/ RLeq(sy[i], Zero) \/ RLess(One, RAbs(cxy[i]))

Valid == EqualLen /\ Len(x) >= 1 /\ \A i \in 1 .. Len(x) : PosDef(i)

\* The covariance matrix of point i (from 1) as the docstring gives it.
PointCov(i) ==
    [r |-> 2, c |-> 2,
     a |-> [p \in (0 .. 1) \X (0 .. 1) |->
              IF p = <<0, 0>> THEN RMul(sx[i], sx[i])
              ELSE IF p = <<1, 1>> THEN RMul(sy[i], sy[i])
              ELSE RMul(cxy[i], RMul(sx[i], sy[i]))]]

\* sum(v_i / s_i^2) / sum(1 / s_i^2)
InverseVarianceMean(v, s) ==
    RDiv(SumSeq([i \in 1 .. Len(v) |-> RDiv(v[i], RMul(s[i], s[i]))]),
         SumSeq([i \in 1 .. Len(s) |-> RDiv(One, RMul(s[i], s[i]))]))

\* The incremental algorithm: a running 2x2 sum of Cinv_i and a running 2-vector
\* sum of Cinv_i * (x_i, y_i) over the first n points.
MatAdd(m, n) == [m EXCEPT !.a = [p \in DOMAIN m.a |-> RAdd(m.a[p], n.a[p])]]
VecAdd(u, v) == [i \in DOMAIN u |-> RAdd(u[i], v[i])]

RECURSIVE RunningNormal(_)
RunningNormal(n) ==
    IF n = 0 THEN Zeros(2, 2)
    ELSE MatAdd(RunningNormal(n - 1), Inverse2(PointCov(n)))

RECURSIVE RunningRhs(_)
RunningRhs(n) ==
    IF n = 0 THEN ZerosVec(2)
    ELSE VecAdd(RunningRhs(n - 1),
                DotVec(Inverse2(PointCov(n)), [i \in 0 .. 1 |-> IF i = 0 THEN x[n] ELSE y[n]]))

\* Its result on n points whose covariances and summed precision are invertible.
Incremental(n) ==
    LET covw == Inverse2(RunningNormal(n))
        w == DotVec(covw, RunningRhs(n))
    IN  <<w[0], w[1], covw>>

\* The summed precision matrix of n points of invertible covariance is singular.
AggregateSingular(n) == Det2(RunningNormal(n)) = Zero

(***************************************************************************)
(* Properties                                                              *)
(***************************************************************************)
\* C1: a call of weighted_mean_twod on one point with sx > 0, sy > 0, |cxy| < 1
\* returns wx = x[0], wy = y[0] and covw = that point's covariance matrix.
C1_SinglePoint ==
    (fn = "twod" /\ Terminated /\ Valid /\ Len(x) = 1)
        => /\ pc = "done"
           /\ ret[1] = x[1]
           /\ ret[2] = y[1]
           /\ ret[3] = PointCov(1)

C1_Witness ==
    /\ fn = "twod" /\ pc = "done" /\ Valid /\ Len(x) = 1
    /\ cxy[1] # Zero /\ sx[1] # sy[1] /\ x[1] # Zero

\* C2: with every cxy = 0 and every sx, sy > 0, weighted_mean_twod returns the
\* inverse-variance-weighted means of x and of y; on x = y = [0, 0],
\* sx = sy = [1, 1], cxy = [0, 0] it returns 0, 0, [[1/2, 0], [0, 1/2]].
C2_Uncorrelated ==
    /\ (fn = "twod" /\ Terminated /\ Valid /\ \A i \in 1 .. Len(x) : cxy[i] = Zero)
          => /\ pc = "done"
             /\ ret[1] = InverseVarianceMean(x, sx)
             /\ ret[2] = InverseVarianceMean(y, sy)
    /\ (/\ fn = "twod" /\ Terminated
        /\ x = <<Zero, Zero>> /\ y = <<Zero, Zero>>
        /\ sx = <<One, One>> /\ sy = <<One, One>> /\ cxy = <<Zero, Zero>>)
          => /\ pc = "done"
             /\ ret[1] = Zero /\ ret[2] = Zero
             /\ ret[3].a[<<0, 0>>] = Rat(1, 2) /\ ret[3].a[<<1, 1>>] = Rat(1, 2)
             /\ ret[3].a[<<0, 1>>] = Zero /\ ret[3].a[<<1, 0>>] = Zero

C2_Witness ==
    /\ fn = "twod" /\ pc = "done" /\ Valid /\ Len(x) = 2
    /\ \A i \in 1 .. 2 : cxy[i] = Zero
    /\ sx[1] # sx[2] /\ sy[1] # sy[2] /\ x[1] # x[2]
    /\ ret[1] # x[1] /\ ret[1] # x[2]

\* C3: when every point's covariance is positive definite, the returned covw is
\* symmetric and positive definite.
C3_SymPosDef ==
    (fn = "twod" /\ Terminated /\ Valid)
        => /\ pc = "done"
           /\ ret[3].a[<<0, 1>>] = ret[3].a[<<1, 0>>]
           /\ RPos(ret[3].a[<<0, 0>>])
           /\ RPos(Det2(ret[3]))

C3_Witness ==
    /\ fn = "twod" /\ pc = "done" /\ Valid /\ Len(x) = 2
    /\ cxy[1] # Zero /\ cxy[2] = Zero
    /\ ret[3].a[<<0, 1>>] # Zero

C6_AsStated == (fn = "twod" /\ ~EqualLen) => pc # "done"

SomeShorter == Len(y) < Len(x) \/ Len(sx) < Len(x) \/ Len(sy) < Len(x) \/ Len(cxy) < Len(x)

\* C6, amended: weighted_mean_twod ends in an error and returns no result
\* whenever one of y, sx, sy, cxy is shorter than x; when none is shorter, the
\* entries past len(x) are not read, and on positive definite points it returns
\* the result of the first len(x) entries.
C6_ShorterRaises ==
    /\ (fn = "twod" /\ SomeShorter)
          => /\ pc # "done"
             /\ Terminated => (pc = "error" /\ err \in {"IndexError", "LinAlgError"})
    /\ (/\ fn = "twod" /\ Terminated /\ ~SomeShorter /\ Len(x) >= 1
        /\ \A i \in 1 .. Len(x) : PosDef(i))
          => (pc = "done" /\ ret = Incremental(Len(x)))

C6_Witness ==
    /\ fn = "twod" /\ pc = "error" /\ err = "IndexError"
    /\ Len(x) = 2 /\ Len(cxy) = 1 /\ Len(y) = 2 /\ Len(sx) = 2 /\ Len(sy) = 2

\* C7: rse(x) of a non-empty array is >= 0, is 0 whenever P90 = P10, and is 0
\* for an array whose values are all identical.
C7_RseNonNegative ==
    (fn = "rse" /\ Terminated)
        => /\ pc = "done"
           /\ RLeq(Zero, ret)
           /\ (scoreatpercentile(x, 90) = scoreatpercentile(x, 10)) => ret = Zero
           /\ (\A i \in 1 .. Len(x) : x[i] = x[1]) => ret = Zero

C7_Witness ==
    /\ fn = "rse" /\ pc = "done" /\ Len(x) >= 3
    /\ RLess(x[2], x[1]) /\ RLess(x[2], x[3])
    /\ RPos(ret)

\* C8: on a valid input weighted_mean_twod, which builds the 2N x 2N precision
\* matrix, returns what the incremental algorithm returns.
C8_EqualsIncremental ==
    (fn = "twod" /\ Terminated /\ Valid)
        => (pc = "done" /\ ret = Incremental(Len(x)))

C8_Witness ==
    /\ fn = "twod" /\ pc = "done" /\ Valid /\ Len(x) = 2
    /\ cxy[1] # cxy[2] /\ sx[1] # sx[2] /\ x[1] # x[2]
    /\ ret = Incremental(2)

\* C9: once the construction loop has run over all points, cinv is block
\* diagonal with block k the inverse of point k's covariance (built from
\* sx[k], sy[k], cxy[k] alone), rows 2k, 2k+1 of mat_a are [1, 0], [0, 1], and
\* vec_b holds x[k] at 2k and y[k] at 2k+1.
C9_BlockDiagonal ==
    (fn = "twod" /\ pc # "call" /\ LoopDone)
        => /\ \A k \in 0 .. Len(x) - 1 :
                /\ \A p \in (0 .. 1) \X (0 .. 1) :
                      cinv.a[<<2 * k + p[1], 2 * k + p[2]>>] = Inverse2(PointCov(k + 1)).a[p]
                /\ mat_a.a[<<2 * k, 0>>] = One /\ mat_a.a[<<2 * k, 1>>] = Zero
                /\ mat_a.a[<<2 * k + 1, 0>>] = Zero /\ mat_a.a[<<2 * k + 1, 1>>] = One
                /\ vec_b[2 * k] = x[k + 1] /\ vec_b[2 * k + 1] = y[k + 1]
           /\ \A p \in DOMAIN cinv.a : (p[1] \div 2 # p[2] \div 2) => cinv.a[p] = Zero
           /\ cinv.r = 2 * Len(x) /\ cinv.c = 2 * Len(x)

C9_Witness ==
    /\ fn = "twod" /\ pc = "loop" /\ LoopDone /\ Len(x) = 2
    /\ cxy[1] # Zero /\ cxy[2] = Zero

\* C10: weighted_mean_oned(x, sx) returns the inverse-variance-weighted mean
\* sum(x_i / sx_i^2) / sum(1 / sx_i^2) and the uncertainty sqrt(1 / sum(1 / sx_i^2)).
C10_InverseVariance ==
    (fn = "oned" /\ pc = "done")
        => /\ ret[1] = InverseVarianceMean(x, sx)
           /\ ret[2] = Sqrt(RDiv(One, SumSeq([i \in 1 .. Len(sx) |-> RDiv(One, RMul(sx[i], sx[i]))])))

====
